---- MODULE Spec2Model ----
(***************************************************************************)
(* State machine of the App component (src/App.tsx): the React state of    *)
(* the component, the asynchronous operations it has started and not yet   *)
(* seen complete (file reads, generateBackdrop calls, host credential      *)
(* calls), and one action per event handler or asynchronous continuation.  *)
(*                                                                         *)
(* JavaScript strings are sequences of parts (words, or the pieces of a    *)
(* data URL), '' is the empty sequence and null/undefined is Null.         *)
(* The value of the hidden file input, which handleStartOver empties and   *)
(* nothing reads, is not part of the state.                                *)
(***************************************************************************)
EXTENDS Integers, Sequences, FiniteSets, Bags, TLC

\* ------------------------------------------------------------------ bounds
\* generateBackdrop calls issued in one behaviour
MaxCalls == 2
\* FileReader reads in flight at once
MaxPendingReads == 1
\* openSelectKey calls in flight at once
MaxPendingSelect == 1

\* ------------------------------------------------------------------ values
\* null / undefined
Null == <<"<null>">>

\* variant of Truthy: only the empty string counts as false
TruthyNonEmpty(v) == v # <<>>

\* JavaScript truthiness of a string | null value
Truthy(v) == v # Null /\ v # <<>>

IDLE == "IDLE"
GENERATING == "GENERATING"
SUCCESS == "SUCCESS"
ERROR == "ERROR"
AppStatus == {IDLE, GENERATING, SUCCESS, ERROR}

\* the static preset catalog of ./constants: the first entry is the preset
\* selected at mount, the second stands for any other entry
BACKDROP_PRESETS ==
  << [id |-> "studio-white", name |-> "Studio White",
      description |-> <<"clean", "white", "studio", "backdrop">>],
     [id |-> "beach", name |-> "Beach",
      description |-> <<"sunny", "beach">>] >>

\* texts the user may type into the Custom Setting box: nothing, or a text
\* that is not empty but made of blanks only
CustomTexts == { <<>>, <<" ">> }

\* files the user may pick: raw content and declared media type
Files == { [content |-> "b1", type |-> "image/png"],
           [content |-> "b2", type |-> "image/jpeg"] }

\* FileReader.readAsDataURL: the data URL of a file
DataURL(file) == <<"data:", file.type, ";base64,", file.content>>

\* images generateBackdrop of ./services/geminiService may resolve with:
\* renderable image representations, never empty
Results == { <<"data:", "image/png", ";base64,", "r1">>,
             <<"data:", "image/png", ";base64,", "r2">> }

\* err.message of a rejected generateBackdrop call
Messages == { Null, <<>>,
              <<"Invalid", "API", "Key", "configuration">>,
              <<"quota", "exceeded">> }

KeyMarker == <<"API", "Key", "configuration">>
DefaultError == <<"Something", "went", "wrong.">>

\* variant of Includes: the part is looked for at the start only
IncludesAtStart(m, part) ==
  /\ m # Null
  /\ Len(m) >= Len(part)
  /\ \A j \in 1..Len(part) : m[j] = part[j]

\* String.prototype.includes behind optional chaining: m?.includes(part)
Includes(m, part) ==
  /\ m # Null
  /\ \E i \in 0..(Len(m) - Len(part)) :
        \A j \in 1..Len(part) : m[i + j] = part[j]

\* variant of ErrorText: no fallback text
ErrorTextVerbatim(m) == m

\* err.message || "Something went wrong."
ErrorText(m) == IF Truthy(m) THEN m ELSE DefaultError

\* the record of a step that carries no call number and no value; steps
\* that no property tells apart are recorded as "other"
NoEvent(op) == [op |-> op, id |-> 0, val |-> <<>>]

VARIABLES
  status, originalImage, originalMimeType, resultImage, selectedPreset,
  customPrompt, error, needsApiKey,      \* useState cells, lines 8-15
  aistudio,                              \* window.aistudio is defined
  checkKeyPending,                       \* checkKey awaits hasSelectedApiKey
  pendingSelect,                         \* handleSelectKey calls awaiting
  pendingReads,                          \* bag of files being read
  inflight,                              \* numbers of the calls unanswered
  callsIssued,                           \* generateBackdrop calls made
  startsAccepted,                        \* handleGenerate runs past its guard
  resetDuring,                           \* ids in flight when reset ran
  lastEvent                              \* history: the last step taken

workflow == <<status, originalImage, originalMimeType, resultImage, error,
              needsApiKey>>
prompts == <<selectedPreset, customPrompt>>
host == <<aistudio, checkKeyPending, pendingSelect>>
calls == <<inflight, callsIssued, startsAccepted, resetDuring>>
vars == <<status, originalImage, originalMimeType, resultImage,
          selectedPreset, customPrompt, error, needsApiKey, aistudio, checkKeyPending, pendingSelect, pendingReads, inflight,
          callsIssued, startsAccepted, resetDuring, lastEvent>>

\* ------------------------------------------------------------------- Init
Init ==
  /\ status = IDLE
  /\ originalImage = Null
  /\ originalMimeType = <<>>
  /\ resultImage = Null
  /\ selectedPreset = BACKDROP_PRESETS[1]
  /\ customPrompt = <<>>
  /\ error = Null
  /\ needsApiKey = FALSE
  /\ aistudio \in BOOLEAN
  /\ checkKeyPending = aistudio
  /\ pendingSelect = 0
  /\ pendingReads = EmptyBag
  /\ inflight = {}
  /\ callsIssued = 0
  /\ startsAccepted = 0
  /\ resetDuring = {}
  /\ lastEvent = NoEvent("mount")

\* ---------------------------------------------------------------- helpers
\* variant of Prompt: customPrompt.trim() || selectedPreset.description
PromptTrimmed ==
  IF SelectSeq(customPrompt, LAMBDA part : part # " ") # <<>>
    THEN customPrompt
    ELSE selectedPreset.description

\* customPrompt || selectedPreset.description
Prompt == IF Truthy(customPrompt) THEN customPrompt
          ELSE selectedPreset.description

\* variant of GenerateDisabled: the status is not looked at
GenerateDisabledImageOnly == ~Truthy(originalImage)

\* disabled attribute of both Generate buttons
GenerateDisabled == ~Truthy(originalImage) \/ status = GENERATING

\* generateBackdrop(originalImage, originalMimeType, prompt): the arguments
GenerateArgs == <<originalImage, originalMimeType, Prompt>>

\* ---------------------------------------------------------------- actions
\* useEffect / checkKey: hasSelectedApiKey() resolves with hasKey
CheckKeyReturn(hasKey) ==
  /\ checkKeyPending
  /\ checkKeyPending' = FALSE
  /\ needsApiKey' = ~hasKey
  /\ lastEvent' = NoEvent("other")
  /\ UNCHANGED <<status, originalImage, originalMimeType, resultImage, error,
                 prompts, aistudio, pendingSelect,
                 pendingReads, calls>>

\* handleSelectKey up to its await; the button exists on the key screen only
ClickSelectKey ==
  /\ needsApiKey
  /\ IF aistudio
       THEN /\ pendingSelect < MaxPendingSelect
            /\ pendingSelect' = pendingSelect + 1
       ELSE UNCHANGED pendingSelect
  /\ lastEvent' = NoEvent("clickSelectKey")
  /\ UNCHANGED <<workflow, prompts, aistudio, checkKeyPending,
                 pendingReads, calls>>

\* handleSelectKey after openSelectKey() has returned
SelectKeyReturn ==
  /\ pendingSelect > 0
  /\ pendingSelect' = pendingSelect - 1
  /\ needsApiKey' = FALSE
  /\ lastEvent' = NoEvent("selectKeyReturn")
  /\ UNCHANGED <<status, originalImage, originalMimeType, resultImage, error,
                 prompts, aistudio, checkKeyPending,
                 pendingReads, calls>>

\* handleFileChange with a chosen file: a FileReader starts reading it
PickFile(file) ==
  /\ ~needsApiKey
  /\ BagCardinality(pendingReads) < MaxPendingReads
  /\ pendingReads' = pendingReads (+) SetToBag({file})
  /\ lastEvent' = NoEvent("other")
  /\ UNCHANGED <<workflow, prompts, host, calls>>

\* handleFileChange with no file chosen
PickNothing ==
  /\ ~needsApiKey
  /\ lastEvent' = NoEvent("other")
  /\ UNCHANGED <<workflow, prompts, host, pendingReads, calls>>

\* variant of ReaderOnload: setError(null) is left out
ReaderOnloadKeepsError(file) ==
  /\ BagIn(file, pendingReads)
  /\ pendingReads' = pendingReads (-) SetToBag({file})
  /\ originalImage' = DataURL(file)
  /\ originalMimeType' = <<file.type>>
  /\ resultImage' = Null
  /\ status' = IDLE
  /\ lastEvent' = [op |-> "onload", id |-> 0, val |-> DataURL(file)]
  /\ UNCHANGED <<error, needsApiKey, prompts, host, calls>>

\* variant of ReaderOnload: setStatus(AppStatus.IDLE) is left out
ReaderOnloadKeepsStatus(file) ==
  /\ BagIn(file, pendingReads)
  /\ pendingReads' = pendingReads (-) SetToBag({file})
  /\ originalImage' = DataURL(file)
  /\ originalMimeType' = <<file.type>>
  /\ resultImage' = Null
  /\ error' = Null
  /\ lastEvent' = [op |-> "onload", id |-> 0, val |-> DataURL(file)]
  /\ UNCHANGED <<status, needsApiKey, prompts, host, calls>>

\* reader.onload of handleFileChange
ReaderOnload(file) ==
  /\ BagIn(file, pendingReads)
  /\ pendingReads' = pendingReads (-) SetToBag({file})
  /\ originalImage' = DataURL(file)
  /\ originalMimeType' = <<file.type>>
  /\ resultImage' = Null
  /\ status' = IDLE
  /\ error' = Null
  /\ lastEvent' = [op |-> "onload", id |-> 0, val |-> DataURL(file)]
  /\ UNCHANGED <<needsApiKey, prompts, host, calls>>

\* variant of handleStartOver: setCustomPrompt('') is left out
handleStartOverKeepsPrompt ==
  /\ ~needsApiKey
  /\ originalImage' = Null
  /\ resultImage' = Null
  /\ originalMimeType' = <<>>
  /\ status' = IDLE
  /\ error' = Null
  /\ resetDuring' = resetDuring \cup inflight
  /\ lastEvent' = NoEvent("reset")
  /\ UNCHANGED <<needsApiKey, prompts, host, pendingReads, inflight,
                 callsIssued, startsAccepted>>

\* handleStartOver; its three buttons exist in the main view only
handleStartOver ==
  /\ ~needsApiKey
  /\ originalImage' = Null
  /\ resultImage' = Null
  /\ originalMimeType' = <<>>
  /\ status' = IDLE
  /\ error' = Null
  /\ customPrompt' = <<>>
  /\ resetDuring' = resetDuring \cup inflight
  /\ lastEvent' = NoEvent("reset")
  /\ UNCHANGED <<needsApiKey, selectedPreset, host, pendingReads, inflight,
                 callsIssued, startsAccepted>>

\* a click or call that returns without doing anything
Ignored(op) ==
  /\ lastEvent' = NoEvent(op)
  /\ UNCHANGED <<workflow, prompts, host, pendingReads,
                 calls>>

\* handleGenerate up to its await
handleGenerate ==
  IF ~Truthy(originalImage)
    THEN Ignored("generateIgnored")
    ELSE /\ status' = GENERATING
         /\ error' = Null
         /\ inflight' = inflight \cup {callsIssued + 1}
         /\ callsIssued' = callsIssued + 1
         /\ startsAccepted' = startsAccepted + 1
         /\ lastEvent' = [op |-> "generate", id |-> callsIssued + 1,
                          val |-> GenerateArgs]
         /\ UNCHANGED <<originalImage, originalMimeType, resultImage,
                        needsApiKey, prompts, host,
                        pendingReads, resetDuring>>

\* variant of ClickGenerate: the button is there on the key screen too
ClickGenerateOnKeyScreen ==
  IF GenerateDisabled
    THEN Ignored("generateIgnored")
    ELSE callsIssued < MaxCalls /\ handleGenerate

\* a click on a Generate button: a disabled button runs no handler
ClickGenerate ==
  /\ ~needsApiKey
  /\ IF GenerateDisabled
       THEN Ignored("generateIgnored")
       ELSE callsIssued < MaxCalls /\ handleGenerate

\* variant of GenerateResolved: setResultImage(result) is left out
GenerateResolvedKeepsResult(r, result) ==
  /\ r \in inflight
  /\ inflight' = inflight \ {r}
  /\ resetDuring' = resetDuring \ {r}
  /\ status' = SUCCESS
  /\ lastEvent' = [op |-> "resolved", id |-> r, val |-> result]
  /\ UNCHANGED <<originalImage, originalMimeType, resultImage, error,
                 needsApiKey, prompts, host, pendingReads,
                 callsIssued, startsAccepted>>

\* variant of GenerateResolved: a success also closes the key screen
GenerateResolvedClearsGate(r, result) ==
  /\ r \in inflight
  /\ inflight' = inflight \ {r}
  /\ resetDuring' = resetDuring \ {r}
  /\ resultImage' = result
  /\ status' = SUCCESS
  /\ needsApiKey' = FALSE
  /\ lastEvent' = [op |-> "resolved", id |-> r, val |-> result]
  /\ UNCHANGED <<originalImage, originalMimeType, error, prompts, host,
                 pendingReads, callsIssued, startsAccepted>>

\* variant of GenerateResolved: setStatus(AppStatus.SUCCESS) is left out
GenerateResolvedKeepsStatus(r, result) ==
  /\ r \in inflight
  /\ inflight' = inflight \ {r}
  /\ resetDuring' = resetDuring \ {r}
  /\ resultImage' = result
  /\ lastEvent' = [op |-> "resolved", id |-> r, val |-> result]
  /\ UNCHANGED <<status, originalImage, originalMimeType, error,
                 needsApiKey, prompts, host, pendingReads, callsIssued,
                 startsAccepted>>

\* handleGenerate after generateBackdrop resolved with result
GenerateResolved(r, result) ==
  /\ r \in inflight
  /\ inflight' = inflight \ {r}
  /\ resetDuring' = resetDuring \ {r}
  /\ resultImage' = result
  /\ status' = SUCCESS
  /\ lastEvent' = [op |-> "resolved", id |-> r, val |-> result]
  /\ UNCHANGED <<originalImage, originalMimeType, error, needsApiKey,
                 prompts, host, pendingReads, callsIssued,
                 startsAccepted>>

\* variant of GenerateRejected: the failed call is issued again
GenerateRejectedRetries(r, m) ==
  /\ r \in inflight
  /\ resetDuring' = resetDuring \ {r}
  /\ error' = ErrorText(m)
  /\ status' = ERROR
  /\ needsApiKey' = IF Includes(m, KeyMarker) THEN TRUE ELSE needsApiKey
  /\ lastEvent' = [op |-> "rejected", id |-> r, val |-> m]
  /\ IF callsIssued < MaxCalls
       THEN /\ inflight' = (inflight \ {r}) \cup {callsIssued + 1}
            /\ callsIssued' = callsIssued + 1
       ELSE /\ inflight' = inflight \ {r}
            /\ UNCHANGED callsIssued
  /\ UNCHANGED <<originalImage, originalMimeType, resultImage, prompts,
                 host, pendingReads, startsAccepted>>

\* handleGenerate after generateBackdrop rejected with err.message = m
GenerateRejected(r, m) ==
  /\ r \in inflight
  /\ inflight' = inflight \ {r}
  /\ resetDuring' = resetDuring \ {r}
  /\ error' = ErrorText(m)
  /\ status' = ERROR
  /\ needsApiKey' = IF Includes(m, KeyMarker) THEN TRUE ELSE needsApiKey
  /\ lastEvent' = [op |-> "rejected", id |-> r, val |-> m]
  /\ UNCHANGED <<originalImage, originalMimeType, resultImage, prompts,
                 host, pendingReads, callsIssued,
                 startsAccepted>>

\* a preset button
SelectPreset(preset) ==
  /\ ~needsApiKey
  /\ selectedPreset' = preset
  /\ customPrompt' = <<>>
  /\ lastEvent' = NoEvent("other")
  /\ UNCHANGED <<workflow, host, pendingReads, calls>>

\* onChange of the Custom Setting textarea
EditCustomPrompt(text) ==
  /\ ~needsApiKey
  /\ customPrompt' = text
  /\ lastEvent' = NoEvent("other")
  /\ UNCHANGED <<workflow, selectedPreset, host,
                 pendingReads, calls>>

\* downloadImage; its buttons are rendered only next to a result
downloadImage ==
  /\ ~needsApiKey
  /\ Truthy(resultImage)
  /\ lastEvent' = NoEvent("download")
  /\ UNCHANGED <<workflow, prompts, host, pendingReads,
                 calls>>

Next ==
  \/ \E hasKey \in BOOLEAN : CheckKeyReturn(hasKey)
  \/ ClickSelectKey
  \/ SelectKeyReturn
  \/ \E file \in Files : PickFile(file)
  \/ PickNothing
  \/ \E file \in Files : ReaderOnload(file)
  \/ handleStartOver
  \/ ClickGenerate
  \/ \E r \in inflight, result \in Results : GenerateResolved(r, result)
  \/ \E r \in inflight, m \in Messages : GenerateRejected(r, m)
  \/ \E i \in 1..Len(BACKDROP_PRESETS) : SelectPreset(BACKDROP_PRESETS[i])
  \/ \E text \in CustomTexts : EditCustomPrompt(text)
  \/ downloadImage

Spec == Init /\ [][Next]_vars

\* the answer to call r arrives, resolved or rejected
ResponseArrives(r) ==
  \/ \E result \in Results : GenerateResolved(r, result)
  \/ \E m \in Messages : GenerateRejected(r, m)

\* ----------------------------------------------------------------- claims

\* C1: in every reachable state at most one generateBackdrop call has been
\* issued and not yet answered.
AtMostOneOutstanding == Cardinality(inflight) <= 1

\* C2: when the answer to a call arrives after handleStartOver ran while
\* that call was outstanding, status, the source image, resultImage, error
\* and needsApiKey keep the values they had just before the arrival.
ResponseAfterResetDiscarded ==
  [][\A r \in resetDuring :
       ResponseArrives(r) =>
         UNCHANGED <<status, originalImage, originalMimeType, resultImage,
                     error, needsApiKey>>]_vars

\* C3: when the answer to a call arrives after a newer call has been
\* issued, status, resultImage, error and needsApiKey do not change.
SupersededResponseDiscarded ==
  [][\A r \in inflight :
       (r < callsIssued /\ ResponseArrives(r)) =>
         UNCHANGED <<status, resultImage, error, needsApiKey>>]_vars

\* C4: in every reachable state resultImage is non-empty only if status is
\* SUCCESS.
ResultOnlyInSuccess == Truthy(resultImage) => status = SUCCESS

\* C5: in every reachable state error is non-empty only if status is ERROR.
ErrorOnlyInError == Truthy(error) => status = ERROR

\* C6: when a call resolves with image R, the state right after is status
\* SUCCESS with resultImage = R.
SuccessCommitsResult ==
  lastEvent.op = "resolved" =>
    status = SUCCESS /\ resultImage = lastEvent.val

\* C6 witness: the call issued last has resolved with nothing else
\* outstanding, for a source image that is still present.
SuccessCommitsResultWitness ==
  /\ lastEvent.op = "resolved"
  /\ lastEvent.id = callsIssued
  /\ inflight = {}
  /\ Truthy(originalImage)
  /\ resultImage \in Results

\* C7 as stated: when a call rejects with message M (empty and absent
\* included), the state right after is status ERROR with error = M
\* verbatim, and resultImage as it was.
FailureMessageVerbatim ==
  [][\A r \in inflight, m \in Messages :
       GenerateRejected(r, m) =>
         status' = ERROR /\ error' = m /\ resultImage' = resultImage]_vars

\* C7 amended: when a call rejects with message M, the state right after is
\* status ERROR with error = M if M is non-empty and error = "Something went
\* wrong." if M is empty or absent; neither the rejection nor the accepted
\* start changes resultImage.
FailureRecordsMessage ==
  [][/\ \A r \in inflight, m \in Messages :
          GenerateRejected(r, m) =>
            /\ status' = ERROR
            /\ error' = (IF m = Null \/ m = <<>>
                           THEN <<"Something", "went", "wrong.">> ELSE m)
            /\ resultImage' = resultImage
     /\ (ClickGenerate /\ callsIssued' # callsIssued) =>
          resultImage' = resultImage]_vars

\* C7 witness: a call rejected with an empty message while an earlier result
\* was still held; the default text is the error.
FailureRecordsMessageWitness ==
  /\ lastEvent.op = "rejected"
  /\ lastEvent.val = <<>>
  /\ status = ERROR
  /\ error = <<"Something", "went", "wrong.">>
  /\ resultImage \in Results

\* C8: a click on Generate while status is GENERATING changes none of
\* status, source image, resultImage, error, needsApiKey, and issues no call.
StartWhileGeneratingIsNoOp ==
  [][(status = GENERATING /\ ClickGenerate) =>
       UNCHANGED <<status, originalImage, originalMimeType, resultImage,
                   error, needsApiKey, inflight, callsIssued>>]_vars

\* C8 witness: Generate was clicked and ignored while a call was outstanding
\* and status was GENERATING.
StartWhileGeneratingWitness ==
  /\ lastEvent.op = "generateIgnored"
  /\ status = GENERATING
  /\ inflight # {}

\* C9: right after handleStartOver status is IDLE, there is no source image,
\* no resultImage, no error, and the custom prompt is empty.
ResetClearsWorkflow ==
  lastEvent.op = "reset" =>
    /\ status = IDLE
    /\ originalImage = Null
    /\ originalMimeType = <<>>
    /\ resultImage = Null
    /\ error = Null
    /\ customPrompt = <<>>

\* C9 witness: handleStartOver has just run while a call was outstanding.
ResetClearsWorkflowWitness ==
  /\ lastEvent.op = "reset"
  /\ resetDuring # {}
  /\ status = IDLE

\* C10: a click on Generate with no source image changes none of status,
\* resultImage, error, needsApiKey, and issues no call.
StartWithoutImageIsNoOp ==
  [][(originalImage = Null /\ ClickGenerate) =>
       UNCHANGED <<status, resultImage, error, needsApiKey, inflight,
                   callsIssued>>]_vars

\* C10 witness: Generate was clicked and ignored with no source image, status
\* still IDLE and no call ever issued.
StartWithoutImageWitness ==
  /\ lastEvent.op = "generateIgnored"
  /\ originalImage = Null
  /\ status = IDLE
  /\ callsIssued = 0

\* the message m is present and "API Key configuration" occurs in it
HasKeyMarker(m) ==
  /\ m # Null
  /\ \E i \in 1..(Len(m) - 2) :
        SubSeq(m, i, i + 2) = <<"API", "Key", "configuration">>

\* C11: when a call rejects with a message that contains the marker, the
\* state right after has needsApiKey = TRUE and status ERROR; when the
\* message does not contain it or is absent, status is ERROR and needsApiKey
\* keeps its value.
FailureClassifiesCredential ==
  [][\A r \in inflight, m \in Messages :
       GenerateRejected(r, m) =>
         /\ status' = ERROR
         /\ IF HasKeyMarker(m) THEN needsApiKey'
                               ELSE needsApiKey' = needsApiKey]_vars

\* C11 witness: a call rejected with a marked message while needsApiKey was
\* not yet pending from the host check; the key screen is now shown.
FailureClassifiesCredentialWitness ==
  /\ lastEvent.op = "rejected"
  /\ lastEvent.val = <<"Invalid", "API", "Key", "configuration">>
  /\ status = ERROR
  /\ needsApiKey
  /\ ~aistudio

\* C12: whenever handleSelectKey has been invoked from the key screen and
\* has run to its end (the host flow, if any, has returned), needsApiKey is
\* FALSE, also when window.aistudio is absent.
SelectionAlwaysUnblocks ==
  (lastEvent.op \in {"clickSelectKey", "selectKeyReturn"} /\ pendingSelect = 0)
    => ~needsApiKey

\* C13: while needsApiKey is TRUE no step is an upload, a Generate click, a
\* reset, a download, or a preset or prompt edit.
KeyScreenGatesWorkflow ==
  [][needsApiKey =>
       ~ \/ \E file \in Files : PickFile(file)
         \/ PickNothing
         \/ ClickGenerate
         \/ handleStartOver
         \/ downloadImage
         \/ \E i \in 1..Len(BACKDROP_PRESETS) : SelectPreset(BACKDROP_PRESETS[i])
         \/ \E text \in CustomTexts : EditCustomPrompt(text)]_vars

\* C13 witness: the key screen is shown over a workflow that holds a source
\* image and a result and is not generating, so that upload, generate, reset
\* and download would all be available in the main view.
KeyScreenGatesWorkflowWitness ==
  /\ needsApiKey
  /\ Truthy(originalImage)
  /\ Truthy(resultImage)
  /\ status # GENERATING
  /\ lastEvent.op = "clickSelectKey"

\* C14: the prompt passed to generateBackdrop is the custom text, untrimmed,
\* whenever that text is non-empty, whatever the selected preset, and the
\* selected preset's description whenever the custom text is empty.
PromptSentIsResolved ==
  lastEvent.op = "generate" =>
    lastEvent.val[3] = (IF customPrompt # <<>> THEN customPrompt
                        ELSE selectedPreset.description)

\* C14 witness: a call was issued with a custom text of blanks only while the
\* second preset was selected, and the blanks were sent.
PromptSentIsResolvedWitness ==
  /\ lastEvent.op = "generate"
  /\ customPrompt = <<" ">>
  /\ selectedPreset = BACKDROP_PRESETS[2]
  /\ lastEvent.val[3] = <<" ">>

\* C15: the number of generateBackdrop calls issued equals the number of
\* accepted starts in every state, and the arrival of a rejection issues no
\* call: it only takes its own call out of the outstanding ones.
NoAutomaticRetry ==
  [][/\ callsIssued' = startsAccepted'
     /\ \A r \in inflight, m \in Messages :
          GenerateRejected(r, m) =>
            callsIssued' = callsIssued /\ inflight' = inflight \ {r}]_vars

\* C15 witness: the last call issued was rejected, nothing is outstanding and
\* the counts agree after more than one start.
NoAutomaticRetryWitness ==
  /\ lastEvent.op = "rejected"
  /\ lastEvent.id = callsIssued
  /\ inflight = {}
  /\ startsAccepted > 1
  /\ callsIssued = startsAccepted

\* C16: once the result of the mount-time hasSelectedApiKey check has been
\* applied, needsApiKey goes from FALSE to TRUE only in a step that is the
\* arrival of a rejection whose message contains the marker, and from TRUE to
\* FALSE only in a step that is the return of handleSelectKey's host flow.
GateChangesOnlyByItsOwners ==
  [][~checkKeyPending =>
       /\ (~needsApiKey /\ needsApiKey') =>
            \E r \in inflight, m \in Messages :
               HasKeyMarker(m) /\ GenerateRejected(r, m)
       /\ (needsApiKey /\ ~needsApiKey') => SelectKeyReturn]_vars

\* C16 witness: after the mount-time check, a marked rejection opened the key
\* screen and the return of the host flow has just closed it.
GateChangesOnlyByItsOwnersWitness ==
  /\ ~checkKeyPending
  /\ lastEvent.op = "selectKeyReturn"
  /\ ~needsApiKey
  /\ status = ERROR
  /\ error = <<"Invalid", "API", "Key", "configuration">>

\* C17: while status is GENERATING no step starts an upload, no completed
\* file read changes the source image or the status, and status leaves
\* GENERATING only by the answer to the current call or by handleStartOver.
NoIngestionWhileGenerating ==
  [][status = GENERATING =>
       /\ ~ \E file \in Files : PickFile(file)
       /\ \A file \in Files :
            ReaderOnload(file) =>
              UNCHANGED <<originalImage, originalMimeType, status>>
       /\ status' # GENERATING =>
            handleStartOver \/ ResponseArrives(callsIssued)]_vars

\* C18: every download step is taken in a state with status SUCCESS and a
\* non-empty resultImage, and changes no workflow state.
ExportOnlyInSuccess ==
  [][downloadImage =>
       /\ status = SUCCESS
       /\ Truthy(resultImage)
       /\ UNCHANGED <<workflow, prompts>>]_vars

\* C19: the completion of the read of a file with content I and media type T
\* leaves the source image = the data URL of (T, I) with media type T, no
\* resultImage, no error and status IDLE, and does not change needsApiKey,
\* the selected preset or the custom prompt.
IngestionSetsSource ==
  [][\A file \in Files :
       ReaderOnload(file) =>
         /\ originalImage' = <<"data:", file.type, ";base64,", file.content>>
         /\ originalMimeType' = <<file.type>>
         /\ resultImage' = Null
         /\ error' = Null
         /\ status' = IDLE
         /\ UNCHANGED <<needsApiKey, selectedPreset, customPrompt>>]_vars

\* C19 witness: the second file has just been read in after a generation had
\* been started for another image, with a custom prompt typed in.
IngestionSetsSourceWitness ==
  /\ lastEvent.op = "onload"
  /\ originalImage = <<"data:", "image/jpeg", ";base64,", "b2">>
  /\ originalMimeType = <<"image/jpeg">>
  /\ status = IDLE
  /\ callsIssued > 0
  /\ customPrompt # <<>>

\* The external service answers the calls it was sent: while calls are
\* outstanding, the promise of one of them settles and its continuation runs.
FairSpec == Spec /\ WF_vars(\E r \in inflight : ResponseArrives(r))

\* C20: if the service keeps answering, status never stays GENERATING for
\* ever, and a call that has been answered is never outstanding again: its
\* one outcome is consumed once.
EveryStartEnds ==
  /\ (status = GENERATING) ~> (status # GENERATING)
  /\ [][\A n \in 1..callsIssued :
          n \notin inflight => n \notin inflight']_vars

\* C20 witness: every call that could be issued has been issued and answered,
\* the last one just now, and status is no longer GENERATING.
EveryStartEndsWitness ==
  /\ lastEvent.op \in {"resolved", "rejected"}
  /\ callsIssued = MaxCalls
  /\ inflight = {}
  /\ status # GENERATING

\* C21: in every reachable state, status SUCCESS implies a non-empty
\* resultImage and status ERROR implies a non-empty error, also after a
\* rejection that carried no message.
StatusHasItsPayload ==
  /\ status = SUCCESS => (resultImage # Null /\ resultImage # <<>>)
  /\ status = ERROR => (error # Null /\ error # <<>>)

\* C21 witness: a call was rejected with no message at all; status is ERROR
\* and the error is the fallback text.
StatusHasItsPayloadWitness ==
  /\ lastEvent.op = "rejected"
  /\ lastEvent.val = Null
  /\ status = ERROR
  /\ error = <<"Something", "went", "wrong.">>
  /\ inflight = {}

====
